---- MODULE Spec2Model ----
(***************************************************************************)
(* Point placement of the heart collage (heart2.py).                       *)
(*                                                                         *)
(* generate_solid_heart_points is modelled one loop iteration per step.    *)
(* The occupancy mask is an input: the rasterised polygon is whatever PIL  *)
(* draws, so the model lets it be any subset of a fixed set of pixels.     *)
(* np.random.shuffle followed by a for loop is modelled as the loop        *)
(* drawing, at each iteration, any element the iterator has not yielded.   *)
(* Pixels are <<y, x>> (row, column) as np.where returns them; selected    *)
(* points are <<x, y>>; rectangles are <<x0, y0, x1, y1>>.                 *)
(*                                                                         *)
(* Arithmetic is exact: the float expression (a / b) * 100 > p is the      *)
(* comparison a * 100 > p * b, and sqrt(d2) > t is d2 > t^2 for t >= 0.    *)
(* For the sizes used here (areas 0, 4, 16, 64) the float results are      *)
(* exact as well.                                                          *)
(***************************************************************************)
EXTENDS Integers, Sequences, FiniteSets

VARIABLES
    img_size,             \* parameter img_size
    max_overlap_percent,  \* parameter max_overlap_percent
    num_points,           \* parameter num_points
    mask_array,           \* the pixels <<y, x>> where mask_array > 0
    heart_pixels,         \* the array the name heart_pixels is bound to
    iter_rest,            \* what the running for loop's iterator has yet to yield
    cur,                  \* the loop variables (y, x), None before the first iteration
    selected_points,
    placed_rectangles,
    pc,
    ov_rect1,             \* arguments and result of a direct call of
    ov_rect2,             \*   calculate_overlap_area
    ov_result

vars == <<img_size, max_overlap_percent, num_points, mask_array, heart_pixels,
          iter_rest, cur, selected_points, placed_rectangles, pc,
          ov_rect1, ov_rect2, ov_result>>

None == <<>>

\* ------------------------------------------------------------------ bounds
Width == 8
Height == 7
MaxCount == 6
MaxCoord == 3

\* ------------------------------------------------------- program constants
PruneEvery == 5

CanvasPixels == {<<y, x>> : y \in 0..(Height - 1), x \in 0..(Width - 1)}

\* The pixels a mask of the model may contain: five whose 5x5 footprints
\* overlap pairwise by at most 12.5 %, and a neighbour of the first.
Sites == {<<1, 1>>, <<5, 1>>, <<3, 4>>, <<1, 7>>, <<5, 7>>, <<1, 2>>}

ImgSizes == {0, 1, 5}
Percents == {0, 16, 150}

\* --------------------------------------------------- calculate_overlap_area
Max(a, b) == IF a >= b THEN a ELSE b
Min(a, b) == IF a <= b THEN a ELSE b

RectArea(r) == (r[3] - r[1]) * (r[4] - r[2])

\* The bug of dividing by the larger rectangle's area.
calculate_overlap_area_MaxArea(rect1, rect2) ==
    LET x1 == Max(rect1[1], rect2[1])
        y1 == Max(rect1[2], rect2[2])
        x2 == Min(rect1[3], rect2[3])
        y2 == Min(rect1[4], rect2[4])
        max_area == Max(RectArea(rect1), RectArea(rect2))
    IN  IF x2 < x1 \/ y2 < y1 THEN <<0, 1>>
        ELSE IF max_area > 0 THEN <<(x2 - x1) * (y2 - y1) * 100, max_area>>
        ELSE <<0, 1>>

\* The returned number as the exact fraction <<numerator, denominator>>,
\* denominator > 0.
calculate_overlap_area(rect1, rect2) ==
    LET x1 == Max(rect1[1], rect2[1])
        y1 == Max(rect1[2], rect2[2])
        x2 == Min(rect1[3], rect2[3])
        y2 == Min(rect1[4], rect2[4])
        overlap_area == (x2 - x1) * (y2 - y1)
        min_area == Min(RectArea(rect1), RectArea(rect2))
    IN  IF x2 < x1 \/ y2 < y1 THEN <<0, 1>>
        ELSE IF min_area > 0 THEN <<overlap_area * 100, min_area>>
        ELSE <<0, 1>>

\* The bug of rejecting at overlap = max_overlap_percent.
ExceedsPercent_Geq(ov, pct) == ov[1] >= pct * ov[2]

\* calculate_overlap_area(rect1, rect2) > max_overlap_percent
ExceedsPercent(ov, pct) == ov[1] > pct * ov[2]

\* ------------------------------------------------ generate_solid_heart_points
\* rect1 of the pixel (y, x)
Footprint(px, size) ==
    <<px[2] - (size \div 2), px[1] - (size \div 2),
      px[2] + (size \div 2), px[1] + (size \div 2)>>

\* The bug of testing only the rectangle placed last.
TooMuchOverlap_LastOnly(rect1, placed, pct) ==
    /\ Len(placed) > 0
    /\ ExceedsPercent(calculate_overlap_area(rect1, placed[Len(placed)]), pct)

\* too_much_overlap after the inner loop
TooMuchOverlap(rect1, placed, pct) ==
    \E i \in 1..Len(placed) :
        ExceedsPercent(calculate_overlap_area(rect1, placed[i]), pct)

\* The bug of extracting with >= 0.
TruePixels_All(mask) == CanvasPixels

\* np.column_stack(np.where(mask_array > 0))
TruePixels(mask) == {px \in CanvasPixels : px \in mask}

\* The bug of breaking one iteration late.
CountReached_Late(sel, n) == Len(sel) > n

\* len(selected_points) >= num_points
CountReached(sel, n) == Len(sel) >= n

\* The bug of falling back only when nothing was selected.
NeedFallback_Empty(sel, n) == Len(sel) = 0 /\ Len(sel) < n

\* len(selected_points) < num_points
NeedFallback(sel, n) == Len(sel) < n

\* The bug of leaving img_size out of the containment check.
InBounds_NoSize(px, size) ==
    /\ 0 < px[2] /\ px[2] < Width
    /\ 0 < px[1] /\ px[1] < Height

\* 0 < x < width - img_size and 0 < y < height - img_size
InBounds(px, size) ==
    /\ 0 < px[2] /\ px[2] < Width - size
    /\ 0 < px[1] /\ px[1] < Height - size

Dist2(p, q) == (p[1] - q[1]) * (p[1] - q[1]) + (p[2] - q[2]) * (p[2] - q[2])

\* min_distance * 0.3 = img_size * (1 - pct / 100) * 0.8 * 0.3
\*                    = 3 * img_size * (100 - pct) / 1250, as its numerator
PruneRadiusNum(size, pct) == 3 * size * (100 - pct)

\* heart_pixels[distances > min_distance * 0.3]
Pruned(pixels, centre, size, pct) ==
    {px \in pixels :
        \/ PruneRadiusNum(size, pct) < 0
        \/ Dist2(px, centre) * 1250 * 1250
             > PruneRadiusNum(size, pct) * PruneRadiusNum(size, pct)}

Init ==
    /\ img_size \in ImgSizes
    /\ max_overlap_percent \in Percents
    /\ num_points \in 0..MaxCount
    /\ mask_array \in SUBSET Sites
    /\ heart_pixels = TruePixels(mask_array)
    /\ iter_rest = TruePixels(mask_array)
    /\ cur = None
    /\ selected_points = <<>>
    /\ placed_rectangles = <<>>
    /\ pc = "primary"
    /\ ov_rect1 = None
    /\ ov_rect2 = None
    /\ ov_result = None

\* One iteration of the primary loop.
PrimaryNext ==
    /\ pc = "primary"
    /\ \E px \in iter_rest :
        /\ cur' = px
        /\ iter_rest' = iter_rest \ {px}
        /\ IF CountReached(selected_points, num_points)
           THEN /\ pc' = "check"
                /\ UNCHANGED <<selected_points, placed_rectangles, heart_pixels>>
           ELSE LET rect1 == Footprint(px, img_size)
                IN  /\ pc' = "primary"
                    /\ IF TooMuchOverlap(rect1, placed_rectangles, max_overlap_percent)
                       THEN UNCHANGED <<selected_points, placed_rectangles, heart_pixels>>
                       ELSE /\ selected_points' = Append(selected_points, <<px[2], px[1]>>)
                            /\ placed_rectangles' = Append(placed_rectangles, rect1)
                            /\ IF (Len(selected_points) + 1) % PruneEvery = 0
                               THEN heart_pixels' =
                                      Pruned(heart_pixels, px, img_size, max_overlap_percent)
                               ELSE UNCHANGED heart_pixels
    /\ UNCHANGED <<img_size, max_overlap_percent, num_points, mask_array,
                   ov_rect1, ov_rect2, ov_result>>

\* The primary loop's iterator is exhausted.
PrimaryExhausted ==
    /\ pc = "primary"
    /\ iter_rest = {}
    /\ pc' = "check"
    /\ UNCHANGED <<img_size, max_overlap_percent, num_points, mask_array, heart_pixels,
                   iter_rest, cur, selected_points, placed_rectangles,
                   ov_rect1, ov_rect2, ov_result>>

\* if len(selected_points) < num_points: re-extract and reshuffle, else return.
CheckFallback ==
    /\ pc = "check"
    /\ IF NeedFallback(selected_points, num_points)
       THEN /\ heart_pixels' = TruePixels(mask_array)
            /\ iter_rest' = TruePixels(mask_array)
            /\ pc' = "fallback"
       ELSE /\ pc' = "done"
            /\ UNCHANGED <<heart_pixels, iter_rest>>
    /\ UNCHANGED <<img_size, max_overlap_percent, num_points, mask_array, cur,
                   selected_points, placed_rectangles, ov_rect1, ov_rect2, ov_result>>

\* One iteration of the fallback loop.
FallbackNext ==
    /\ pc = "fallback"
    /\ \E px \in iter_rest :
        /\ cur' = px
        /\ iter_rest' = iter_rest \ {px}
        /\ IF CountReached(selected_points, num_points)
           THEN /\ pc' = "done"
                /\ UNCHANGED selected_points
           ELSE /\ pc' = "fallback"
                /\ IF InBounds(px, img_size)
                   THEN selected_points' = Append(selected_points, <<px[2], px[1]>>)
                   ELSE UNCHANGED selected_points
    /\ UNCHANGED <<img_size, max_overlap_percent, num_points, mask_array, heart_pixels,
                   placed_rectangles, ov_rect1, ov_rect2, ov_result>>

\* The fallback loop's iterator is exhausted: return selected_points.
FallbackExhausted ==
    /\ pc = "fallback"
    /\ iter_rest = {}
    /\ pc' = "done"
    /\ UNCHANGED <<img_size, max_overlap_percent, num_points, mask_array, heart_pixels,
                   iter_rest, cur, selected_points, placed_rectangles,
                   ov_rect1, ov_rect2, ov_result>>

Next ==
    \/ PrimaryNext
    \/ PrimaryExhausted
    \/ CheckFallback
    \/ FallbackNext
    \/ FallbackExhausted

Spec == Init /\ [][Next]_vars

\* ------------------------------------- calculate_overlap_area called directly
OvSizes == {0, 1, 2, 4}

\* The footprints the selector builds at line 50.
Footprints ==
    {Footprint(<<y, x>>, s) : y \in 0..MaxCoord, x \in 0..MaxCoord, s \in OvSizes}

InitOverlap ==
    /\ ov_rect1 \in Footprints
    /\ ov_rect2 \in Footprints
    /\ ov_result = None
    /\ pc = "overlap_call"
    /\ img_size = 0
    /\ max_overlap_percent = 0
    /\ num_points = 0
    /\ mask_array = {}
    /\ heart_pixels = {}
    /\ iter_rest = {}
    /\ cur = None
    /\ selected_points = <<>>
    /\ placed_rectangles = <<>>

OverlapCall ==
    /\ pc = "overlap_call"
    /\ ov_result' = calculate_overlap_area(ov_rect1, ov_rect2)
    /\ pc' = "overlap_done"
    /\ UNCHANGED <<img_size, max_overlap_percent, num_points, mask_array, heart_pixels,
                   iter_rest, cur, selected_points, placed_rectangles, ov_rect1, ov_rect2>>

NextOverlap == OverlapCall

SpecOverlap == InitOverlap /\ [][NextOverlap]_vars

\* ================================================================ properties
Returned == pc = "done"

\* The first Len(placed_rectangles) points are the primary phase's; the
\* fallback phase appends to selected_points only.
PrimaryCount == Len(placed_rectangles)

FallbackRan == pc \in {"fallback", "done"} /\ PrimaryCount < num_points

PointPixel(pt) == <<pt[2], pt[1]>>

PrimaryPixels == {PointPixel(selected_points[i]) : i \in 1..PrimaryCount}

Malformed == img_size <= 0 \/ max_overlap_percent < 0 \/ max_overlap_percent > 100

\* overlap_percent of two rectangles > pct, from the glossary's definition
\* as computed by calculate_overlap_area
OverlapAbove(r1, r2, pct) ==
    calculate_overlap_area(r1, r2)[1] > pct * calculate_overlap_area(r1, r2)[2]

\* C1: the returned list never has more than num_points points, and
\* num_points = 0 returns the empty list.
C1_LengthAtMostCount ==
    /\ Len(selected_points) <= num_points
    /\ (Returned /\ num_points = 0) => selected_points = <<>>

\* C1 witness: the function returned exactly num_points > 0 points although
\* the mask holds more pixels than that.
C1_Witness ==
    /\ Returned
    /\ num_points > 0
    /\ Len(selected_points) = num_points
    /\ Cardinality(mask_array) > num_points

\* C2: when the primary phase alone reached num_points, the footprints
\* centred at the returned points overlap pairwise by at most
\* max_overlap_percent.
C2_PrimaryOverlapBound ==
    (Returned /\ PrimaryCount >= num_points) =>
        \A i \in 1..Len(selected_points) : \A j \in 1..Len(selected_points) :
            i # j =>
                ~OverlapAbove(Footprint(PointPixel(selected_points[i]), img_size),
                              Footprint(PointPixel(selected_points[j]), img_size),
                              max_overlap_percent)

\* C2 witness: a primary-only result of at least three points, two of whose
\* footprints do intersect (within the bound), a mask pixel having been rejected.
C2_Witness ==
    /\ Returned
    /\ ~Malformed
    /\ num_points >= 3
    /\ PrimaryCount = num_points
    /\ \E i \in 1..PrimaryCount : \E j \in 1..PrimaryCount :
          /\ i # j
          /\ OverlapAbove(placed_rectangles[i], placed_rectangles[j], 0)
    /\ \E px \in mask_array :
          /\ px \notin PrimaryPixels
          /\ px \notin iter_rest

Contains(a, b) == a[1] <= b[1] /\ a[2] <= b[2] /\ b[3] <= a[3] /\ b[4] <= a[4]

\* C3 as stated: identical rectangles and containing pairs give 100, for
\* every footprint, those of half-size 0 included.
C3_Original ==
    (pc = "overlap_done" /\ (Contains(ov_rect1, ov_rect2) \/ Contains(ov_rect2, ov_rect1)))
        => ov_result[1] = 100 * ov_result[2]

PositiveSides(r) == r[3] > r[1] /\ r[4] > r[2]

\* C3 amended: identical rectangles and containing pairs give 100 when both
\* rectangles have positive width and height (img_size >= 2); when one of
\* them is a footprint of half-size 0 the result is 0.
C3_ContainmentGives100 ==
    (pc = "overlap_done" /\ (Contains(ov_rect1, ov_rect2) \/ Contains(ov_rect2, ov_rect1)))
        => IF PositiveSides(ov_rect1) /\ PositiveSides(ov_rect2)
           THEN ov_result[1] = 100 * ov_result[2]
           ELSE ov_result[1] = 0

\* C3 witness: the function was applied to a rectangle and a different,
\* smaller rectangle of positive area inside it.
C3_Witness ==
    /\ pc = "overlap_done"
    /\ ov_rect1 # ov_rect2
    /\ Contains(ov_rect1, ov_rect2)
    /\ PositiveSides(ov_rect2)
    /\ ov_result[1] = 100 * ov_result[2]

\* C4 as stated: when num_points exceeds the number of true pixels (and the
\* configuration is well-formed), the returned list is no longer than the
\* number of true pixels.
C4_AtMostTruePixels ==
    (Returned /\ ~Malformed /\ num_points > Cardinality(mask_array))
        => Len(selected_points) <= Cardinality(mask_array)

\* C5 as stated: under a malformed configuration the selection loop is not
\* entered, so no point is ever selected.
C5_MalformedFailsFast ==
    Malformed => selected_points = <<>>

\* C6: on a mask without true pixels nothing is ever selected, and the
\* function returns.
C6_EmptyMaskEmptyResult ==
    mask_array = {} =>
        /\ selected_points = <<>>
        /\ cur = None
        /\ pc \in {"primary", "check", "fallback", "done"}

\* C6 witness: the function returned the empty list for an empty mask after
\* running the fallback phase.
C6_Witness ==
    /\ mask_array = {}
    /\ Returned
    /\ FallbackRan
    /\ selected_points = <<>>

\* C7 as stated: a mask of at least num_points true pixels gives exactly
\* num_points points (under a well-formed configuration).
C7_Original ==
    (Returned /\ ~Malformed /\ Cardinality(mask_array) >= num_points)
        => Len(selected_points) = num_points

ContainedPixels ==
    {px \in mask_array :
        /\ 0 < px[2] /\ px[2] < Width - img_size
        /\ 0 < px[1] /\ px[1] < Height - img_size}

\* C7 amended: a mask with at least num_points true pixels that pass the
\* fallback phase's containment check gives exactly num_points points.
C7_CountComplete ==
    (Returned /\ Cardinality(ContainedPixels) >= num_points)
        => Len(selected_points) = num_points

\* C7 witness: the primary phase fell short, and the fallback phase filled
\* the list up to num_points.
C7_Witness ==
    /\ Returned
    /\ ~Malformed
    /\ Cardinality(ContainedPixels) >= num_points
    /\ FallbackRan
    /\ PrimaryCount > 0
    /\ Len(selected_points) = num_points

C8_FallbackStep ==
    /\ (pc # "fallback" /\ pc' = "fallback") => Len(selected_points) < num_points
    /\ pc = "fallback" =>
          /\ placed_rectangles' = placed_rectangles
          /\ \/ selected_points' = selected_points
             \/ \E px \in mask_array :
                  /\ 0 < px[2] /\ px[2] < Width - img_size
                  /\ 0 < px[1] /\ px[1] < Height - img_size
                  /\ selected_points' = Append(selected_points, <<px[2], px[1]>>)

\* C8: the fallback phase is entered only with fewer than num_points points;
\* each of its steps leaves the list alone or appends one true mask pixel
\* (x, y) with 0 < x < width - img_size and 0 < y < height - img_size, and
\* the primary phase's points and rectangles stay as they are.
C8_FallbackAppendsContained == [][C8_FallbackStep]_vars

\* C8 witness: the fallback phase appended a point whose footprint overlaps a
\* placed rectangle by more than max_overlap_percent.
C8_Witness ==
    /\ Returned
    /\ ~Malformed
    /\ PrimaryCount > 0
    /\ Len(selected_points) > PrimaryCount
    /\ \E i \in 1..PrimaryCount :
          OverlapAbove(Footprint(PointPixel(selected_points[Len(selected_points)]), img_size),
                       placed_rectangles[i], max_overlap_percent)

C9_Step ==
    (/\ pc = "primary"
     /\ cur' # cur
     /\ ~(Len(selected_points) >= num_points))
        => cur' \in heart_pixels

\* C9 as stated: an iteration of the primary phase that goes on to the
\* overlap test never has a pruned pixel as its candidate.
C9_PrunedNeverTested == [][C9_Step]_vars

\* C10: when the primary phase ended with fewer than num_points points,
\* every true mask pixel it did not select has a footprint overlapping some
\* placed rectangle by more than max_overlap_percent.
C10_NoValidPositionLeft ==
    (pc \in {"check", "fallback", "done"} /\ PrimaryCount < num_points) =>
        \A px \in mask_array :
            px \notin PrimaryPixels =>
                \E i \in 1..PrimaryCount :
                    OverlapAbove(Footprint(px, img_size), placed_rectangles[i],
                                 max_overlap_percent)

\* C10 witness: the primary phase ended short after pruning, and a pruned
\* pixel other than a selected one is among the unselected.
C10_Witness ==
    /\ pc = "check"
    /\ ~Malformed
    /\ PrimaryCount < num_points
    /\ \E px \in mask_array : px \notin heart_pixels /\ px \notin PrimaryPixels

====
